---- MODULE Spec2Model ----
(***************************************************************************)
(* Model of osm-region-downloader:                                         *)
(*   guimon3.py  OSMParserThread (streaming tag aggregator run on a worker *)
(*               thread) and OSMExplorerApp (the caller that starts runs   *)
(*               and receives their progress / finished callbacks);        *)
(*   proc.py     analyze_osm_xml (batch contributor / timestamp analyzer). *)
(*                                                                         *)
(* Python values are represented as follows.                               *)
(*   None (attribute absent, field unset)   the string None                *)
(*   dict / Counter (insertion ordered)     sequence of <<key, value>>     *)
(*   defaultdict                            function on the keys present   *)
(*   list                                   sequence                       *)
(*   reference to a parser's accumulators   index of the parser in threads *)
(*                                          (NoRef for None)               *)
(***************************************************************************)
EXTENDS Integers, Sequences, FiniteSets, TLC

VARIABLES threads, app, an

vars == <<threads, app, an>>

\* ------------------------------------------------------------------ bounds

\* Top-level elements read from one document in SpecParse.
MaxElems == 2
\* Parse runs started by open_file in Spec.
MaxRuns == 2
\* Top-level elements of the document given to analyze_osm_xml.
MaxObjs == 2

\* ------------------------------------------------------------ Python values

None == "<None>"
NoRef == 0
EmptyMap == [x \in {} |-> 0]

Range(s) == {s[i] : i \in DOMAIN s}

\* dict: d[k] = v keeps the position of an existing key and replaces its value.
DictKeys(d) == {d[i][1] : i \in DOMAIN d}

DictGet(d, k, default) ==
    IF k \in DictKeys(d)
    THEN LET i == CHOOSE j \in DOMAIN d : d[j][1] = k IN d[i][2]
    ELSE default

DictSet(d, k, v) ==
    IF k \in DictKeys(d)
    THEN [i \in DOMAIN d |-> IF d[i][1] = k THEN <<k, v>> ELSE d[i]]
    ELSE Append(d, <<k, v>>)

\* Counter: a dict of counts; a missing key reads 0 and c[k] += 1 creates it.
CounterGet(c, k) == DictGet(c, k, 0)

CounterInc(c, k) == DictSet(c, k, CounterGet(c, k) + 1)

RECURSIVE CounterSum(_)
CounterSum(c) == IF c = <<>> THEN 0 ELSE Head(c)[2] + CounterSum(Tail(c))

\* Counter.most_common(): the items by descending count; the sort is stable, so
\* equal counts keep their insertion order.
RECURSIVE InsertByCount(_, _)
InsertByCount(sorted, item) ==
    IF sorted = <<>> THEN <<item>>
    ELSE IF Head(sorted)[2] >= item[2]
         THEN <<Head(sorted)>> \o InsertByCount(Tail(sorted), item)
         ELSE <<item>> \o sorted

RECURSIVE MostCommonFrom(_, _)
MostCommonFrom(c, sorted) ==
    IF c = <<>> THEN sorted
    ELSE MostCommonFrom(Tail(c), InsertByCount(sorted, Head(c)))

MostCommon(c) == MostCommonFrom(c, <<>>)

\* defaultdict: reading a missing key yields the default.
MapGet(m, k, default) == IF k \in DOMAIN m THEN m[k] ELSE default

MapSet(m, k, v) == [x \in DOMAIN m \cup {k} |-> IF x = k THEN v ELSE m[x]]

\* ------------------------------------------------- guimon3.py: the documents

\* elem.tag in ('node', 'way', 'relation')
OsmKinds == {"node", "way", "relation"}

Sentinel == "unnamed key-value"

Child(tag, k, v) == [tag |-> tag, k |-> k, v |-> v]
Element(tag, id, children) == [tag |-> tag, id |-> id, children |-> children]

NameCafe == Child("tag", "name", "Cafe")
NameEmpty == Child("tag", "name", "")
AmenityCafe == Child("tag", "amenity", "Cafe")

\* Children of an element: well-formed tags, a tag without k, a tag without v,
\* and a child that is no tag (a way's nd).
Children ==
    {NameCafe, NameEmpty, AmenityCafe,
     Child("tag", None, "Cafe"), Child("tag", "amenity", None),
     Child("nd", None, None)}

\* Child lists: none, any single child, and a name tag followed by a second
\* well-formed tag (another key, the same key with another value in either
\* order, the same pair twice).
WellFormedTags == {NameCafe, NameEmpty, AmenityCafe}

ChildLists ==
    {<<>>} \cup {<<c>> : c \in Children}
           \cup {<<c, d>> : c \in {NameCafe, NameEmpty}, d \in WellFormedTags}

\* A node with an id, a way without an id attribute.
Heads == {<<"node", "7">>, <<"way", None>>}

Elements ==
    {Element(h[1], h[2], cl) : h \in Heads, cl \in ChildLists}
        \cup {Element("bounds", None, <<>>)}

\* The file that open_file is given in Spec: its top-level elements.
OsmFile == <<Element("node", "7", <<AmenityCafe>>)>>

\* ------------------------------------------- guimon3.py: OSMParserThread

\* __init__, and the thread's position in run(): "parse" inside _parse's loop,
\* "finally" in run()'s finally clause, "showerror" or a line of on_finished
\* / _populate_keys inside the finished callback, "exited" once run() has
\* ended. rows and items are _populate_keys's lists of the rows it is deleting
\* and the items it is inserting; uncaught is the exception that left run().
\* History kept beside the fields: log, the callbacks the run has made; doc, the
\* top-level elements it has read; raised, the exception _parse raised.
NewParser(filepath, progress_callback, finished_callback) ==
    [filepath |-> filepath,
     progress_callback |-> progress_callback,
     finished_callback |-> finished_callback,
     tag_counts |-> <<>>,
     values_map |-> EmptyMap,
     objects_map |-> EmptyMap,
     error |-> None,
     raised |-> None,
     pc |-> "parse",
     elements_processed |-> 0,
     rows |-> <<>>,
     items |-> <<>>,
     uncaught |-> None,
     log |-> <<>>,
     doc |-> <<>>]

ProgressEvent(n) == [ev |-> "progress", n |-> n]
FinishedEvent == [ev |-> "finished", n |-> 0]

\* Mutant of CollectTags: a repeated key keeps its first value.
RECURSIVE CollectTagsFirstWins(_, _)
CollectTagsFirstWins(children, tags) ==
    IF children = <<>> THEN tags
    ELSE LET child == Head(children)
             next == IF /\ child.tag = "tag"
                        /\ child.k # None
                        /\ child.v # None
                        /\ child.k \notin DictKeys(tags)
                     THEN DictSet(tags, child.k, child.v)
                     ELSE tags
         IN CollectTagsFirstWins(Tail(children), next)

\* tags = {}; for child in elem: ... tags[k] = v
RECURSIVE CollectTags(_, _)
CollectTags(children, tags) ==
    IF children = <<>> THEN tags
    ELSE LET child == Head(children)
             next == IF /\ child.tag = "tag"
                        /\ child.k # None
                        /\ child.v # None
                     THEN DictSet(tags, child.k, child.v)
                     ELSE tags
         IN CollectTags(Tail(children), next)

\* name if name is not None else 'unnamed key-value'
EntryName(name) == IF name # None THEN name ELSE Sentinel

\* Mutant of RecordTag: the per-value count is not kept.
RecordTagKeyOnly(p, obj_type, obj_id, name, k, v) ==
    [p EXCEPT
        !.tag_counts = CounterInc(@, k),
        !.values_map = MapSet(@, k, MapGet(@, k, <<<<v, 1>>>>)),
        !.objects_map =
            MapSet(@, <<k, v>>,
                   Append(MapGet(@, <<k, v>>, <<>>),
                          <<obj_type, obj_id, EntryName(name)>>))]

\* One iteration of "for k, v in tags.items()".
RecordTag(p, obj_type, obj_id, name, k, v) ==
    [p EXCEPT
        !.tag_counts = CounterInc(@, k),
        !.values_map = MapSet(@, k, CounterInc(MapGet(@, k, <<>>), v)),
        !.objects_map =
            MapSet(@, <<k, v>>,
                   Append(MapGet(@, <<k, v>>, <<>>),
                          <<obj_type, obj_id, EntryName(name)>>))]

RECURSIVE RecordTags(_, _, _, _, _)
RecordTags(p, obj_type, obj_id, name, items) ==
    IF items = <<>> THEN p
    ELSE RecordTags(RecordTag(p, obj_type, obj_id, name,
                              Head(items)[1], Head(items)[2]),
                    obj_type, obj_id, name, Tail(items))

\* elem.attrib.get('id') or ''
ObjId(elem) == IF elem.id = None \/ elem.id = "" THEN "" ELSE elem.id

\* Mutant of ProcessElement: only tagged objects are counted.
ProcessElementTaggedOnly(p, elem) ==
    IF elem.tag \notin OsmKinds THEN p
    ELSE LET tags == CollectTags(elem.children, <<>>)
         IN IF tags = <<>> THEN p
            ELSE RecordTags([p EXCEPT !.elements_processed = @ + 1],
                            elem.tag, ObjId(elem),
                            DictGet(tags, "name", None), tags)

\* The body of _parse's loop for the end event of a top-level element, up to
\* elem.clear(): count it and record its tags.
ProcessElement(p, elem) ==
    IF elem.tag \notin OsmKinds THEN p
    ELSE LET tags == CollectTags(elem.children, <<>>)
             counted == [p EXCEPT !.elements_processed = @ + 1]
         IN IF tags = <<>> THEN counted
            ELSE RecordTags(counted, elem.tag, ObjId(elem),
                            DictGet(tags, "name", None), tags)

\* if self.progress_callback and (time.time() - last_report) > 0.5
\* elapsed says whether more than half a second has passed since last_report.
ReportsProgress(p, elem, elapsed) ==
    /\ elem.tag \in OsmKinds
    /\ p.progress_callback
    /\ elapsed

\* ---------------------------------------------- guimon3.py: OSMExplorerApp

\* The state of the app that the parser threads and open_file share: the three
\* references to a parser's accumulators, the current parser thread, the rows
\* of keys_tree (row id, the key, to its count) and the pending _poll_parser
\* timers. main_pc is the main thread's position: "idle" in the event loop,
\* "dialog" in the file dialog, or a line of open_file / _clear_all; main_rows
\* is _clear_all's list of the rows it is deleting.
\* Not part of the state: the status line, the order of the rows, values_tree,
\* objects_tree, sort_orders and the clipboard. They are written only for
\* display, by on_progress, sort_tree, on_key_selected, on_value_selected,
\* copy_selected and copy_all, which change nothing else.
NewApp ==
    [parser_thread |-> NoRef,
     tag_counts |-> NoRef,
     values_map |-> NoRef,
     objects_map |-> NoRef,
     keys_tree |-> EmptyMap,
     polls |-> 0,
     main_pc |-> "idle",
     main_rows |-> <<>>]

\* Treeview.get_children(): the row ids, in the order they are shown.
Orders(rows) ==
    {s \in [1..Cardinality(rows) -> rows] :
        \A x, y \in 1..Cardinality(rows) : x # y => s[x] # s[y]}

\* Treeview.delete(iid) and insert(..., iid=k, values=(k, cnt)).
TreeDelete(tree, iid) == [x \in DOMAIN tree \ {iid} |-> tree[x]]
TreeInsert(tree, row) == MapSet(tree, row[1], row[2])

\* typ.capitalize()
Capitalize(typ) ==
    CASE typ = "node" -> "Node"
      [] typ = "way" -> "Way"
      [] typ = "relation" -> "Relation"
      [] OTHER -> typ

\* The citation line, as the parts of the f-string.
_format_object(obj_tuple) ==
    LET typ == obj_tuple[1]
        oid == obj_tuple[2]
        name == obj_tuple[3]
        safe_name == IF name # "" /\ name # None THEN name ELSE Sentinel
    IN <<"* {{", Capitalize(typ), "|", oid, "|", safe_name, "}}">>

\* open_file run to its end on an app with no parser thread in on_finished:
\* the rows and the references cleared, threads[i] started, a timer armed.
OpenedApp(a, i) ==
    [a EXCEPT !.keys_tree = EmptyMap,
              !.tag_counts = NoRef,
              !.values_map = NoRef,
              !.objects_map = NoRef,
              !.parser_thread = i,
              !.polls = @ + 1]

\* Thread.is_alive(): started, and run() has not returned.
is_alive(p) == p.pc # "exited"

\* ------------------------------------------------------ guimon3.py: actions

\* _parse's loop reads the next top-level element of the document: any element
\* of elems, with more or less than half a second elapsed since the last report.
\* The progress callback writes the status line only.
ReadElement(i, elems, max) ==
    /\ threads[i].pc = "parse"
    /\ Len(threads[i].doc) < max
    /\ \E elem \in elems, elapsed \in BOOLEAN :
          LET q == [ProcessElement(threads[i], elem)
                        EXCEPT !.doc = Append(@, elem)]
              n == q.elements_processed
          IN threads' =
                 [threads EXCEPT ![i] =
                     IF ReportsProgress(q, elem, elapsed)
                     THEN [q EXCEPT !.log = Append(@, ProgressEvent(n))]
                     ELSE q]
    /\ UNCHANGED <<app, an>>

\* The document ends: the loop is left, and _parse makes its final report.
ParseEnd(i) ==
    /\ threads[i].pc = "parse"
    /\ LET p == threads[i]
       IN threads' =
              [threads EXCEPT ![i] =
                  [p EXCEPT !.pc = "finally",
                            !.log = IF p.progress_callback
                                    THEN Append(@, ProgressEvent(
                                                       p.elements_processed))
                                    ELSE @]]
    /\ UNCHANGED <<app, an>>

\* iterparse raises (the file cannot be opened, or the XML is malformed at this
\* point): run() stores the exception.
RunExcept(p, e) == [p EXCEPT !.error = e, !.pc = "finally"]

ParseRaise(i) ==
    /\ threads[i].pc = "parse"
    /\ \E e \in {"OSError", "ParseError"} :
          threads' = [threads EXCEPT ![i] =
                         RunExcept([threads[i] EXCEPT !.raised = e], e)]
    /\ UNCHANGED <<app, an>>

\* Mutant of FinishedBranch: the results are taken whether or not the run
\* failed.
FinishedBranchUnchecked(parser) == "l172"

\* on_finished, line 168: a failed run goes to the error box, a successful
\* one to the assignments of lines 172-174.
FinishedBranch(parser) ==
    IF parser.error # None THEN "showerror" ELSE "l172"

\* Mutant of RunFinally: the callback is made only when the parse succeeded.
RunFinallyOnSuccess(p) ==
    IF p.finished_callback /\ p.error = None
    THEN [p EXCEPT !.pc = FinishedBranch(p), !.log = Append(@, FinishedEvent)]
    ELSE [p EXCEPT !.pc = "exited"]

\* run()'s finally clause: the finished callback is called, on this thread;
\* without a callback the thread ends.
RunFinally(p) ==
    IF p.finished_callback
    THEN [p EXCEPT !.pc = FinishedBranch(p), !.log = Append(@, FinishedEvent)]
    ELSE [p EXCEPT !.pc = "exited"]

Finish(i) ==
    /\ threads[i].pc = "finally"
    /\ threads' = [threads EXCEPT ![i] = RunFinally(threads[i])]
    /\ UNCHANGED <<app, an>>

\* An exception leaves on_finished, and with it run(): the thread ends.
Uncaught(p, e) == [p EXCEPT !.uncaught = e, !.pc = "exited"]

\* on_finished of a failed run: the error box is closed, the status line is
\* set and the callback returns.
DismissError(i) ==
    /\ threads[i].pc = "showerror"
    /\ threads' = [threads EXCEPT ![i].pc = "exited"]
    /\ UNCHANGED <<app, an>>

\* on_finished, lines 172-174, one assignment at a time.
StoreResults(i) ==
    /\ threads[i].pc \in {"l172", "l173", "l174"}
    /\ app' = CASE threads[i].pc = "l172" -> [app EXCEPT !.tag_counts = i]
                [] threads[i].pc = "l173" -> [app EXCEPT !.values_map = i]
                [] threads[i].pc = "l174" -> [app EXCEPT !.objects_map = i]
    /\ threads' = [threads EXCEPT ![i].pc =
                      CASE threads[i].pc = "l172" -> "l173"
                        [] threads[i].pc = "l173" -> "l174"
                        [] threads[i].pc = "l174" -> "l189"]
    /\ UNCHANGED an

\* _populate_keys, one Tk call or one read of self.tag_counts at a time:
\* get_children (189), delete per row (190), most_common (191), insert per
\* item (192). Deleting a row that is gone, or inserting a row id that is
\* there, raises TclError; most_common on None raises AttributeError.
\* The calls are made from the parser thread. Whether Tk serves such a call
\* only from the main thread's event loop or between any two calls of the main
\* thread depends on how Tcl was built, so a call may take effect at any point
\* of open_file.
Populate(i) ==
    LET p == threads[i]
    IN /\ p.pc \in {"l189", "l190", "l191", "l192"}
       /\ CASE p.pc = "l189" ->
                 /\ \E rows \in Orders(DOMAIN app.keys_tree) :
                       threads' = [threads EXCEPT ![i] =
                           [p EXCEPT !.rows = rows,
                                     !.pc = IF rows = <<>> THEN "l191"
                                            ELSE "l190"]]
                 /\ app' = app
            [] p.pc = "l190" ->
                 IF Head(p.rows) \in DOMAIN app.keys_tree
                 THEN /\ app' = [app EXCEPT !.keys_tree =
                                    TreeDelete(@, Head(p.rows))]
                      /\ threads' = [threads EXCEPT ![i] =
                            [p EXCEPT !.rows = Tail(@),
                                      !.pc = IF Tail(p.rows) = <<>>
                                             THEN "l191" ELSE "l190"]]
                 ELSE /\ threads' = [threads EXCEPT ![i] =
                                        Uncaught(p, "TclError")]
                      /\ app' = app
            [] p.pc = "l191" ->
                 /\ threads' = [threads EXCEPT ![i] =
                       IF app.tag_counts = NoRef
                       THEN Uncaught(p, "AttributeError")
                       ELSE LET items ==
                                  MostCommon(threads[app.tag_counts].tag_counts)
                            IN [p EXCEPT !.items = items,
                                         !.pc = IF items = <<>> THEN "l176"
                                                ELSE "l192"]]
                 /\ app' = app
            [] p.pc = "l192" ->
                 IF Head(p.items)[1] \notin DOMAIN app.keys_tree
                 THEN /\ app' = [app EXCEPT !.keys_tree =
                                    TreeInsert(@, Head(p.items))]
                      /\ threads' = [threads EXCEPT ![i] =
                            [p EXCEPT !.items = Tail(@),
                                      !.pc = IF Tail(p.items) = <<>>
                                             THEN "l176" ELSE "l192"]]
                 ELSE /\ threads' = [threads EXCEPT ![i] =
                                        Uncaught(p, "TclError")]
                      /\ app' = app
       /\ UNCHANGED an

\* on_finished, lines 176-178: len(self.tag_counts), then
\* sum(self.tag_counts.values()), the status line and the return. On None the
\* first raises TypeError, the second AttributeError.
Totals(i) ==
    LET p == threads[i]
    IN /\ p.pc \in {"l176", "l177"}
       /\ threads' = [threads EXCEPT ![i] =
             IF app.tag_counts = NoRef
             THEN Uncaught(p, IF p.pc = "l176" THEN "TypeError"
                              ELSE "AttributeError")
             ELSE [p EXCEPT !.pc = IF p.pc = "l176" THEN "l177"
                                   ELSE "exited"]]
       /\ UNCHANGED <<app, an>>

ParseElement(i) == ReadElement(i, Elements, MaxElems)

\* A run of Spec reads the next element of the file, and the document ends
\* where the file does; a read that fails is ParseRaise.
RunElement(i) ==
    ReadElement(i, {OsmFile[Len(threads[i].doc) + 1]}, Len(OsmFile))

RunEnd(i) ==
    /\ Len(threads[i].doc) = Len(OsmFile)
    /\ ParseEnd(i)

\* open_file, line 149: the file dialog opens.
OpenFile ==
    /\ app.main_pc = "idle"
    /\ Len(threads) < MaxRuns
    /\ app' = [app EXCEPT !.main_pc = "dialog"]
    /\ UNCHANGED <<threads, an>>

\* The dialog returns "" (cancelled: open_file returns) or a path: the status
\* line is set and _clear_all lists the rows of keys_tree (lines 150-152, 182).
ChoosePath ==
    /\ app.main_pc = "dialog"
    /\ \E filepath \in {"", "a.osm"} :
          IF filepath = ""
          THEN app' = [app EXCEPT !.main_pc = "idle"]
          ELSE \E rows \in Orders(DOMAIN app.keys_tree) :
                  app' = [app EXCEPT !.main_rows = rows,
                                     !.main_pc = IF rows = <<>> THEN "l184"
                                                 ELSE "l183"]
    /\ UNCHANGED <<threads, an>>

\* _clear_all: delete per row (183; a row that is gone raises TclError, which
\* ends the handler), then lines 184-186, one assignment at a time.
ClearAll ==
    /\ app.main_pc \in {"l183", "l184", "l185", "l186"}
    /\ app' =
          CASE app.main_pc = "l183" ->
                 IF Head(app.main_rows) \in DOMAIN app.keys_tree
                 THEN [app EXCEPT
                         !.keys_tree = TreeDelete(@, Head(app.main_rows)),
                         !.main_rows = Tail(@),
                         !.main_pc = IF Tail(app.main_rows) = <<>>
                                     THEN "l184" ELSE "l183"]
                 ELSE [app EXCEPT !.main_rows = <<>>, !.main_pc = "idle"]
            [] app.main_pc = "l184" ->
                 [app EXCEPT !.tag_counts = NoRef, !.main_pc = "l185"]
            [] app.main_pc = "l185" ->
                 [app EXCEPT !.values_map = NoRef, !.main_pc = "l186"]
            [] app.main_pc = "l186" ->
                 [app EXCEPT !.objects_map = NoRef, !.main_pc = "l154"]
    /\ UNCHANGED <<threads, an>>

\* open_file, lines 154-155: the parser thread is made and started.
StartThread ==
    /\ app.main_pc = "l154"
    /\ threads' = Append(threads, NewParser("a.osm", TRUE, TRUE))
    /\ app' = [app EXCEPT !.parser_thread = Len(threads) + 1,
                          !.main_pc = "l156"]
    /\ UNCHANGED an

\* open_file, line 156: the first _poll_parser timer is armed.
ArmPoll ==
    /\ app.main_pc = "l156"
    /\ app' = [app EXCEPT !.polls = @ + 1, !.main_pc = "idle"]
    /\ UNCHANGED <<threads, an>>

\* _poll_parser, run by a pending timer from the event loop (the dialog runs
\* one too): it re-arms itself while the current parser thread is alive.
PollParser ==
    /\ app.main_pc \in {"idle", "dialog"}
    /\ app.polls > 0
    /\ app' = IF /\ app.parser_thread # NoRef
                 /\ is_alive(threads[app.parser_thread])
              THEN app
              ELSE [app EXCEPT !.polls = @ - 1]
    /\ UNCHANGED <<threads, an>>

\* ------------------------------------------------------------------ proc.py

Timestamp(form, t, zone) == [form |-> form, t |-> t, zone |-> zone]
NoTimestamp == Timestamp("absent", 0, "")

\* ts.replace("Z", "+00:00")
ReplaceZ(ts) == IF ts.zone = "Z" THEN [ts EXCEPT !.zone = "+00:00"] ELSE ts

\* datetime.fromisoformat: an instant, aware when the string carries an offset.
\* A string that is not ISO-8601 (or still carries a literal Z) is rejected.
IsIsoFormat(s) == s.form = "iso" /\ s.zone \in {"", "+00:00"}
fromisoformat(s) == [t |-> s.t, aware |-> s.zone # ""]

\* Python truthiness of an attribute value.
Truthy(x) == x # None /\ x # ""
TruthyTs(ts) == ts.form \notin {"absent", "empty"}

\* Comparing an aware datetime with a naive one raises TypeError.
Comparable(dts) == \A i, j \in DOMAIN dts : dts[i].aware = dts[j].aware

Min(dts) == CHOOSE d \in Range(dts) : \A e \in Range(dts) : d.t <= e.t
Max(dts) == CHOOSE d \in Range(dts) : \A e \in Range(dts) : d.t >= e.t

AnElement(tag, ts, user, children) ==
    [tag |-> tag, timestamp |-> ts, user |-> user, children |-> children]

Highway == Child("tag", "highway", "x")

AnTimestamps ==
    {NoTimestamp, Timestamp("empty", 0, ""), Timestamp("bad", 0, ""),
     Timestamp("iso", 1, "Z"),
     Timestamp("iso", 2, "+00:00"), Timestamp("iso", 3, "")}

AnUsers == {None, "", "alice", "bob"}

\* No child; one tag; a tag with an empty key, a tag without k, a child that is
\* no tag, and the same key twice.
AnChildLists ==
    {<<>>, <<Highway>>,
     <<Child("tag", "", "x"), Child("tag", None, "x"), Child("nd", None, None),
       Highway, Highway>>}

AnElements ==
    {AnElement("node", ts, u, cl) :
        ts \in AnTimestamps, u \in AnUsers, cl \in AnChildLists}
      \cup {AnElement("bounds", NoTimestamp, None, <<>>)}

AnIdle ==
    [pc |-> "idle", doc |-> <<>>, timestamps |-> <<>>, contributors |-> <<>>,
     tags_counter |-> <<>>, contrib_timestamps |-> <<>>, error |-> None,
     output |-> <<>>]

\* for tag in elem.findall("tag"): k = tag.attrib.get("k"); if k: ...
RECURSIVE CountTags(_, _)
CountTags(children, tags_counter) ==
    IF children = <<>> THEN tags_counter
    ELSE LET child == Head(children)
         IN CountTags(Tail(children),
                      IF child.tag = "tag" /\ Truthy(child.k)
                      THEN CounterInc(tags_counter, child.k)
                      ELSE tags_counter)

\* if ts and user: ... (the timestamp parses)
CollectMetadata(a, elem) ==
    IF TruthyTs(elem.timestamp) /\ Truthy(elem.user)
    THEN LET dt == fromisoformat(ReplaceZ(elem.timestamp))
         IN [a EXCEPT
                !.timestamps = Append(@, dt),
                !.contributors = CounterInc(@, elem.user),
                !.contrib_timestamps =
                    DictSet(@, elem.user,
                            Append(DictGet(@, elem.user, <<>>), dt))]
    ELSE a

\* Whether line 27 raises for this element.
TimestampRaises(elem) ==
    /\ TruthyTs(elem.timestamp)
    /\ Truthy(elem.user)
    /\ ~IsIsoFormat(ReplaceZ(elem.timestamp))

\* One iteration of the loop over the root's children.
AnalyzeBody(a, elem) ==
    LET b == [a EXCEPT !.doc = Append(@, elem)]
    IN IF elem.tag \notin OsmKinds THEN b
       ELSE IF TimestampRaises(elem)
            THEN [b EXCEPT !.pc = "error", !.error = "ValueError"]
            ELSE [CollectMetadata(b, elem)
                    EXCEPT !.tags_counter = CountTags(elem.children, @)]

\* lifespan[user] = max(tslist) - min(tslist), in the dict's order.
Lifespans(contrib_timestamps) ==
    [i \in DOMAIN contrib_timestamps |->
        LET tslist == contrib_timestamps[i][2]
        IN <<contrib_timestamps[i][1], Max(tslist).t - Min(tslist).t>>]

\* Mutant of Report: an empty timestamp list prints an empty range.
ReportDefaultRange(a) ==
    IF ~Comparable(a.timestamps)
    THEN [a EXCEPT !.pc = "error", !.error = "TypeError"]
    ELSE LET none == [t |-> 0, aware |-> FALSE]
         IN [a EXCEPT
               !.pc = "done",
               !.output =
                   <<[oldest |-> IF a.timestamps = <<>> THEN none
                                 ELSE Min(a.timestamps),
                      newest |-> IF a.timestamps = <<>> THEN none
                                 ELSE Max(a.timestamps),
                      top_tags |-> MostCommon(a.tags_counter),
                      top_contribs |-> MostCommon(a.contributors),
                      lifespan_ranked |->
                          MostCommon(Lifespans(a.contrib_timestamps))]>>]

\* Lines 39-72: the global range, the rankings, and the printed report.
Report(a) ==
    IF a.timestamps = <<>>
    THEN [a EXCEPT !.pc = "error", !.error = "ValueError"]
    ELSE IF ~Comparable(a.timestamps)
         THEN [a EXCEPT !.pc = "error", !.error = "TypeError"]
         ELSE [a EXCEPT
                 !.pc = "done",
                 !.output =
                     <<[oldest |-> Min(a.timestamps),
                        newest |-> Max(a.timestamps),
                        top_tags |-> MostCommon(a.tags_counter),
                        top_contribs |-> MostCommon(a.contributors),
                        lifespan_ranked |->
                            MostCommon(Lifespans(a.contrib_timestamps))]>>]

\* ET.parse(filename) reads the whole document, or raises.
AnalyzeStart ==
    /\ an.pc = "idle"
    /\ \/ an' = [an EXCEPT !.pc = "loop"]
       \/ \E e \in {"OSError", "ParseError"} :
             an' = [an EXCEPT !.pc = "error", !.error = e]
    /\ UNCHANGED <<threads, app>>

AnalyzeElement ==
    /\ an.pc = "loop"
    /\ Len(an.doc) < MaxObjs
    /\ \E elem \in AnElements : an' = AnalyzeBody(an, elem)
    /\ UNCHANGED <<threads, app>>

AnalyzeReport ==
    /\ an.pc = "loop"
    /\ an' = Report(an)
    /\ UNCHANGED <<threads, app>>

\* ----------------------------------------------------------- specifications

\* One parse run over any document, started by open_file on a fresh app; the
\* class also takes no progress callback (its default), which the run without
\* one covers.
InitParse ==
    /\ \E cb \in BOOLEAN : threads = <<NewParser("a.osm", cb, TRUE)>>
    /\ app = OpenedApp(NewApp, 1)
    /\ an = AnIdle

NextParse ==
    \/ ParseElement(1)
    \/ ParseEnd(1)
    \/ ParseRaise(1)
    \/ Finish(1)
    \/ DismissError(1)
    \/ StoreResults(1)
    \/ Populate(1)
    \/ Totals(1)
    \/ PollParser

SpecParse == InitParse /\ [][NextParse]_vars

\* The app: open_file on the main thread, any number of parser threads.
Init ==
    /\ threads = <<>>
    /\ app = NewApp
    /\ an = AnIdle

Next ==
    \/ OpenFile
    \/ ChoosePath
    \/ ClearAll
    \/ StartThread
    \/ ArmPoll
    \/ PollParser
    \/ \E i \in DOMAIN threads : RunElement(i)
    \/ \E i \in DOMAIN threads : RunEnd(i)
    \/ \E i \in DOMAIN threads : ParseRaise(i)
    \/ \E i \in DOMAIN threads : Finish(i)
    \/ \E i \in DOMAIN threads : DismissError(i)
    \/ \E i \in DOMAIN threads : StoreResults(i)
    \/ \E i \in DOMAIN threads : Populate(i)
    \/ \E i \in DOMAIN threads : Totals(i)

Spec == Init /\ [][Next]_vars

\* analyze_osm_xml over any document.
NextAnalyze ==
    \/ AnalyzeStart
    \/ AnalyzeElement
    \/ AnalyzeReport

SpecAnalyze == Init /\ [][NextAnalyze]_vars

\* ------------------------------------------------------------------- claims

\* What the document says, read off the elements themselves.
WellFormed(c) == c.tag = "tag" /\ c.k # None /\ c.v # None

CarriesLiteral(elem, k, v) ==
    \E i \in DOMAIN elem.children :
        LET c == elem.children[i] IN WellFormed(c) /\ c.k = k /\ c.v = v

\* The pair is the last one the element gives for key k.
CarriesLast(elem, k, v) ==
    \E i \in DOMAIN elem.children :
        LET c == elem.children[i]
        IN /\ WellFormed(c) /\ c.k = k /\ c.v = v
           /\ \A j \in DOMAIN elem.children :
                 j > i => ~(WellFormed(elem.children[j])
                            /\ elem.children[j].k = k)

IsObject(elem) == elem.tag \in OsmKinds

HasTags(elem) == \E i \in DOMAIN elem.children : WellFormed(elem.children[i])

KindAndId(elem) == <<elem.tag, IF elem.id = None THEN "" ELSE elem.id>>

LiteralObjects(doc, k, v) ==
    LET sel == SelectSeq(doc, LAMBDA e : IsObject(e) /\ CarriesLiteral(e, k, v))
    IN [i \in DOMAIN sel |-> KindAndId(sel[i])]

LastObjects(doc, k, v) ==
    LET sel == SelectSeq(doc, LAMBDA e : IsObject(e) /\ CarriesLast(e, k, v))
    IN [i \in DOMAIN sel |-> KindAndId(sel[i])]

Listed(p, k, v) ==
    LET objs == MapGet(p.objects_map, <<k, v>>, <<>>)
    IN [i \in DOMAIN objs |-> <<objs[i][1], objs[i][2]>>]

AllPairs == {<<c.k, c.v>> : c \in {d \in Children : WellFormed(d)}}

Succeeded(p) == p.pc = "exited" /\ p.error = None

ProgressCounts(p) ==
    LET sel == SelectSeq(p.log, LAMBDA e : e.ev = "progress")
    IN [i \in DOMAIN sel |-> sel[i].n]

FinishedCount(p) == Len(SelectSeq(p.log, LAMBDA e : e.ev = "finished"))

\* C1: for every key of tag_counts, values_map holds a non-empty counter for
\* the key and its counts add up to the key's count, after every element.
C1_ValueSumsMatchKeyCount ==
    \A i \in DOMAIN threads :
        LET p == threads[i]
        IN \A k \in DictKeys(p.tag_counts) :
              /\ k \in DOMAIN p.values_map
              /\ p.values_map[k] # <<>>
              /\ CounterSum(p.values_map[k]) = CounterGet(p.tag_counts, k)

\* A key counted twice, under two different values.
C1_Witness ==
    /\ CounterGet(threads[1].tag_counts, "name") = 2
    /\ Len(threads[1].values_map["name"]) = 2

\* C2 as claimed: after a successful parse objects_map lists, for every pair,
\* exactly the objects one of whose tag children is that literal pair.
C2_ListsEveryLiteralPair ==
    \A i \in DOMAIN threads :
        Succeeded(threads[i]) =>
            \A kv \in AllPairs :
                Listed(threads[i], kv[1], kv[2])
                    = LiteralObjects(threads[i].doc, kv[1], kv[2])

\* C2, amended: after a successful parse objects_map lists, for every pair, in
\* document order and once each, exactly the objects for which the pair is the
\* last value given for its key; it holds no other entry.
C2_ListsLastValuePairs ==
    \A i \in DOMAIN threads :
        Succeeded(threads[i]) =>
            /\ \A kv \in AllPairs :
                  Listed(threads[i], kv[1], kv[2])
                     = LastObjects(threads[i].doc, kv[1], kv[2])
            /\ \A kv \in DOMAIN threads[i].objects_map :
                  /\ kv \in AllPairs
                  /\ threads[i].objects_map[kv] # <<>>

\* A successful parse of an object that gives name twice, with two values.
C2_Witness ==
    /\ Succeeded(threads[1])
    /\ \E j \in DOMAIN threads[1].doc :
          LET e == threads[1].doc[j]
          IN /\ IsObject(e)
             /\ CarriesLiteral(e, "name", "Cafe")
             /\ CarriesLiteral(e, "name", "")
    /\ Len(MapGet(threads[1].objects_map, <<"name", "">>, <<>>)) = 2

\* C3: a run makes no finished callback before its parse has ended and
\* exactly one once it has, after all its progress callbacks, whether the
\* parse succeeded or failed; an exception raised by the parse is stored in
\* error, the run goes on to its callback, and nothing is raised out of run().
C3_FinishedExactlyOnce ==
    \A i \in DOMAIN threads :
        LET p == threads[i]
        IN /\ p.pc \in {"parse", "finally"} => FinishedCount(p) = 0
           /\ p.pc \notin {"parse", "finally"} =>
                 /\ FinishedCount(p) = 1
                 /\ p.log[Len(p.log)].ev = "finished"
           /\ p.error = p.raised
           /\ p.raised # None =>
                 /\ p.pc \in {"finally", "showerror", "exited"}
                 /\ p.uncaught = None

\* A failed run and a successful run with progress reports have both ended.
C3_Witness ==
    /\ \E i \in DOMAIN threads :
          threads[i].pc = "exited" /\ threads[i].raised # None
    /\ \E i \in DOMAIN threads :
          /\ Succeeded(threads[i])
          /\ Len(ProgressCounts(threads[i])) >= 2

\* C4: the counts reported by one run never decrease, and when the parse
\* completes the last count is the number of node/way/relation elements of
\* the document, tagged or not.
C4_ProgressMonotoneAndFinal ==
    \A i \in DOMAIN threads :
        LET p == threads[i]
            counts == ProgressCounts(p)
        IN /\ \A a, b \in DOMAIN counts : a <= b => counts[a] <= counts[b]
           /\ (p.progress_callback /\ p.error = None /\ p.pc # "parse") =>
                 /\ counts # <<>>
                 /\ counts[Len(counts)]
                       = Len(SelectSeq(p.doc, LAMBDA e : IsObject(e)))

\* A completed run over an untagged object and another object, with a report
\* in between.
C4_Witness ==
    /\ Succeeded(threads[1])
    /\ ProgressCounts(threads[1]) = <<1, 2>>
    /\ \E j \in DOMAIN threads[1].doc :
          IsObject(threads[1].doc[j]) /\ ~HasTags(threads[1].doc[j])

\* C5: no step of a failed run, its finished callback included, changes the
\* app's tag_counts, values_map or objects_map, and none of them refers to the
\* failed run's accumulators.
C5_FailedRunExposesNothing ==
    [][\A i \in DOMAIN threads :
          (threads[i].error # None /\ threads'[i] # threads[i]) =>
             /\ app'.tag_counts = app.tag_counts
             /\ app'.values_map = app.values_map
             /\ app'.objects_map = app.objects_map
             /\ i \notin {app'.tag_counts, app'.values_map, app'.objects_map}
      ]_vars

\* A failed run has ended with non-empty accumulators.
C5_Witness ==
    \E i \in DOMAIN threads :
        /\ threads[i].pc = "exited"
        /\ threads[i].error # None
        /\ threads[i].tag_counts # <<>>

\* C6 as claimed: at most one started run has not yet made its finished
\* callback.
C6_AtMostOneActiveRun ==
    Cardinality({i \in DOMAIN threads : FinishedCount(threads[i]) = 0}) <= 1

\* The name the document gives an object: the last value of its name tag.
HasName(elem) == \E v \in {"Cafe", ""} : CarriesLast(elem, "name", v)

GivenName(elem) == CHOOSE v \in {"Cafe", ""} : CarriesLast(elem, "name", v)

DisplayName(elem) == IF HasName(elem) THEN GivenName(elem) ELSE Sentinel

\* C7 as claimed: for every recorded object the name in objects_map and the
\* name in the citation line are the object's name tag value when it has one
\* (the empty string included) and the sentinel exactly when it has none.
C7_DisplayNameIsNameTag ==
    \A i \in DOMAIN threads :
        \A kv \in DOMAIN threads[i].objects_map :
            LET objs == threads[i].objects_map[kv]
                sel == SelectSeq(threads[i].doc,
                           LAMBDA e : IsObject(e) /\ CarriesLast(e, kv[1], kv[2]))
            IN \A j \in DOMAIN objs :
                  j \in DOMAIN sel =>
                     /\ objs[j][3] = DisplayName(sel[j])
                     /\ _format_object(objs[j])[6] = DisplayName(sel[j])

\* C10 as claimed: once every started run has ended and no open_file is under
\* way, the app holds the results of the run started last, or None if that
\* run failed.
C10_LatestRunWins ==
    (/\ threads # <<>>
     /\ \A i \in DOMAIN threads : threads[i].pc = "exited"
     /\ app.main_pc = "idle") =>
        LET last == Len(threads)
            want == IF threads[last].error = None THEN last ELSE NoRef
        IN /\ app.tag_counts = want
           /\ app.values_map = want
           /\ app.objects_map = want

\* No object of the document has both a timestamp and a user attribute.
AnNoPairs(doc) ==
    \A j \in DOMAIN doc :
        ~(/\ doc[j].tag \in OsmKinds
          /\ doc[j].timestamp.form # "absent"
          /\ doc[j].user # None)

\* C8: on a document where no object has both a timestamp and a user
\* attribute, the analysis ends in an error and prints nothing.
C8_NoPairsIsAnError ==
    (an.pc \in {"done", "error"} /\ AnNoPairs(an.doc)) =>
        /\ an.pc = "error"
        /\ an.error # None
        /\ an.output = <<>>

\* The analysis of a document with objects, none with both attributes, has
\* failed at the global range.
C8_Witness ==
    /\ an.pc = "error"
    /\ an.error = "ValueError"
    /\ AnNoPairs(an.doc)
    /\ \E j \in DOMAIN an.doc :
          an.doc[j].tag \in OsmKinds /\ an.doc[j].timestamp.form = "iso"
    /\ an.tags_counter # <<>>

\* The tag children of elem whose key is k.
RECURSIVE TagsWithKey(_, _)
TagsWithKey(children, k) ==
    IF children = <<>> THEN 0
    ELSE (IF Head(children).tag = "tag" /\ Head(children).k = k THEN 1 ELSE 0)
            + TagsWithKey(Tail(children), k)

\* The keys of the tag children of elem: the values of their k attributes.
AnKeys(children) ==
    {children[j].k : j \in {x \in DOMAIN children :
                               children[x].tag = "tag" /\ children[x].k # None}}

\* C9 as claimed: reading an object that has a timestamp but no user attribute
\* leaves timestamps, contributors and contrib_timestamps as they were, and
\* adds to tags_counter one for each of its tag children, under the child's
\* key, whatever the key.
C9_TimestampWithoutUser ==
    [][(/\ an.pc = "loop"
        /\ Len(an'.doc) = Len(an.doc) + 1
        /\ an'.doc[Len(an'.doc)].tag \in OsmKinds
        /\ an'.doc[Len(an'.doc)].timestamp.form # "absent"
        /\ an'.doc[Len(an'.doc)].user = None) =>
          /\ an'.timestamps = an.timestamps
          /\ an'.contributors = an.contributors
          /\ an'.contrib_timestamps = an.contrib_timestamps
          /\ an'.pc = "loop"
          /\ \A k \in AnKeys(an'.doc[Len(an'.doc)].children) :
                CounterGet(an'.tags_counter, k)
                   = CounterGet(an.tags_counter, k)
                        + TagsWithKey(an'.doc[Len(an'.doc)].children, k)
      ]_vars
====
